---- MODULE Spec2Model ----
(***************************************************************************)
(* Synthetic resume / social-follow data sets of the DDIA chapter 2        *)
(* exercises: the follow-graph generators (neo4j_social.py, postgres.py),  *)
(* the graph queries (neo4j_social.py) and the skill-frequency analyses    *)
(* (mongodb.py).                                                           *)
(*                                                                         *)
(* Seven specifications share the module:                                  *)
(*   Spec           the generation commands writing to their store         *)
(*   SpecQuery      the Cypher read queries over a follow graph            *)
(*   SpecSkills     the resumes collection and the two skill counts        *)
(*   SpecSkillSets  the skill sets the two resume generators draw          *)
(*   SpecSeed       two runs of the graph generator under one seed         *)
(*   SpecPurge      purge_data on the document database                    *)
(*   SpecLoadData   load_data calls whose transactions interleave          *)
(***************************************************************************)
EXTENDS Integers, Sequences, FiniteSets, TLC

VARIABLES
    \* ---- generation (Spec) ----
    backend,                  \* "neo4j" | "postgres" | "mongodb": the store the command line targets
    pc,                       \* position of the running generation command
    runs,                     \* generation commands started so far
    outcome,                  \* "none" | "running" | "ok" | "error" of the latest command
    num_users,                \* the num_users argument of the running command
    source_names,             \* how many distinct full names the mimesis Person can yield
    user_names,               \* create_social_graph: the set of names drawn so far
    users_data,               \* load_data: list of the names of the rows to insert
    i,                        \* position of the `for follower in ...` loop (1-based)
    next_uuid,                \* uuid4 values handed out so far (each call is fresh)
    user_uuids,               \* create_social_graph: list of the generated uuids
    relationships_to_create,  \* create_social_graph: list of <<follower, followee>>
    neo_nodes,                \* graph store: uuids of the :User nodes
    neo_rels,                 \* graph store: the :FOLLOWS relationships <<from, to>>
    next_id,                  \* users.id serial sequence
    followers_pk,             \* whether schema.sql keys followers on (user_id, follower_id)
    load_user_ids,            \* load_data: ids fetched after the bulk insert
    user_ids,                 \* add_followers: ids of every row of users
    follower_data,            \* add_followers: list of <<user_id, follower_id>>
    pg_users,                 \* relational store: ids in table users
    pg_followers,             \* relational store: rows of table followers
    \* ---- graph queries (SpecQuery) ----
    graph,                    \* [nodes, name, edges]: the follow graph the queries read
    query,                    \* the latest query and what it returned
    \* ---- skill counts (SpecSkills) ----
    resumes,                  \* collection resumes: list of documents
    skill_counts,             \* collection skill_counts written by mapReduce
    report,                   \* the latest analysis: the documents it read, what it returned
    \* ---- skill rows of load_data (SpecSkillSets) ----
    pg_skills,                \* relational store: names in table skills, the id is the position
    users_skills_data,        \* load_data: list of <<user_id, skill_id>>
    users_skills,             \* relational store: rows of table users_skills
    \* ---- two runs under one seed (SpecSeed) ----
    seed,                     \* the seed the state of module random derives from
    seeded_runs,              \* the graphs the completed runs generated, in order
    \* ---- purge_data (SpecPurge) ----
    collections,              \* names of the collections database ddia holds
    purge_pc,                 \* position of the running purge_data call
    purge_names,              \* purge_data: collection names the loop has yet to visit
    total_deleted,            \* purge_data: sum of the deleted_count values so far
    count_at_call,            \* documents the database held when the running call began
    purges,                   \* what each returned purge_data call found, printed and left
    \* ---- concurrent load_data transactions (SpecLoadData) ----
    tx_pc,                    \* position of each load_data call
    tx_num_users,             \* the num_users argument of each call
    tx_inserted,              \* ids of the rows each call copied into users
    tx_user_ids,              \* the list user_ids each call fetched
    users_rows,               \* table users: rows [id, by, committed]
    users_id_seq,             \* users.id serial sequence as the transactions share it
    users_skills_rows         \* table users_skills: committed rows [user_id, by]

genVars == <<backend, pc, runs, outcome, num_users, source_names, user_names,
             users_data, i, next_uuid, user_uuids,
             relationships_to_create, neo_nodes, neo_rels, next_id, followers_pk,
             load_user_ids, user_ids, follower_data, pg_users, pg_followers>>
queryVars == <<graph, query>>
skillVars == <<resumes, skill_counts, report>>
loadVars == <<pg_skills, users_skills_data, users_skills>>
seedVars == <<seed, seeded_runs>>
purgeVars == <<collections, purge_pc, purge_names, total_deleted, count_at_call, purges>>
txVars == <<tx_pc, tx_num_users, tx_inserted, tx_user_ids, users_rows, users_id_seq,
            users_skills_rows>>
vars == <<genVars, queryVars, skillVars, loadVars, seedVars, purgeVars, txVars>>

(***************************************************************************)
(* Bounds of the model.                                                    *)
(***************************************************************************)
MaxNeoUsers == 3      \* largest num_users given to create_social_graph
MaxPgLoad == 3        \* largest num_users given to one load_data call
MaxPgRows == 5        \* most rows table users holds
MaxRuns == 2          \* generation commands per behaviour
MaxNames == 3         \* most distinct full names the name source holds

(***************************************************************************)
(* Helpers.                                                                *)
(***************************************************************************)
Range(s) == {s[k] : k \in 1..Len(s)}

Min(a, b) == IF a <= b THEN a ELSE b

RECURSIVE SortedSeq(_)
\* The ascending list of a finite set of integers.
SortedSeq(S) ==
    IF S = {} THEN <<>>
    ELSE LET m == CHOOSE x \in S : \A y \in S : x <= y
         IN  <<m>> \o SortedSeq(S \ {m})

\* The elements of s at the positions I, in list order.
AtPositions(s, I) == LET idx == SortedSeq(I) IN [k \in 1..Len(idx) |-> s[idx[k]]]

\* random.choices(population, k=k): k draws with replacement (an element may repeat).
random_choices(population, k) == [1..k -> Range(population)]

\* random.sample(population, k): k elements at k different positions (without
\* replacement).  The model draws the samples that keep the list order; the
\* order of a sample is read by none of the operations below.
random_sample(population, k) ==
    {AtPositions(population, I) :
        I \in {J \in SUBSET (1..Len(population)) : Cardinality(J) = k}}

\* The list with the follower left in (the comprehension without its filter).
all_users(ids, follower) == ids

\* [uid for uid in ids if uid != follower]
potential_users(ids, follower) == SelectSeq(ids, LAMBDA uid : uid # follower)

\* random.randint(1, 20) in create_social_graph, random.randint(5, 20) in add_followers.
neo_min_follow == 1
neo_max_follow == 20
pg_min_follow == 5
pg_max_follow == 20

\* The draw with a lower bound of 0 (a follower may then follow nobody).
num_to_follow_from_zero(b) == 0..20

num_to_follow_choices(b) ==
    IF b = "neo4j" THEN neo_min_follow..neo_max_follow
                   ELSE pg_min_follow..pg_max_follow

\* The edges one follower contributes, as the loop body appends them.
NeoPairs(follower, users_to_follow) ==
    [k \in 1..Len(users_to_follow) |-> <<follower, users_to_follow[k]>>]

\* add_followers appends (user_id, follower_id): the followed user comes first.
PgPairs(follower, users_to_follow) ==
    [k \in 1..Len(users_to_follow) |-> <<users_to_follow[k], follower>>]

(***************************************************************************)
(* Generation: initial state.                                              *)
(***************************************************************************)
QueryIdle == graph = [nodes |-> {}, name |-> <<>>, edges |-> {}] /\ query = [op |-> "none"]
SkillsIdle == resumes = <<>> /\ skill_counts = {} /\ report = [op |-> "none"]
LoadIdle == pg_skills = <<>> /\ users_skills_data = <<>> /\ users_skills = <<>>
SeedIdle == seed = 0 /\ seeded_runs = <<>>
PurgeIdle ==
    /\ collections = {} /\ purge_pc = "idle" /\ purge_names = {}
    /\ total_deleted = 0 /\ count_at_call = 0 /\ purges = <<>>
TxIdle ==
    /\ tx_pc = <<>> /\ tx_num_users = <<>> /\ tx_inserted = <<>> /\ tx_user_ids = <<>>
    /\ users_rows = {} /\ users_id_seq = 0 /\ users_skills_rows = {}

InitGen ==
    /\ backend \in {"neo4j", "postgres"}
    /\ followers_pk \in BOOLEAN
    /\ (backend = "neo4j" => followers_pk = FALSE)
    /\ pc = "idle"
    /\ runs = 0
    /\ outcome = "none"
    /\ num_users = 0
    /\ source_names \in 1..MaxNames
    /\ user_names = {}
    /\ users_data = <<>>
    /\ i = 1
    /\ next_uuid = 0
    /\ user_uuids = <<>>
    /\ relationships_to_create = <<>>
    /\ neo_nodes = {}
    /\ neo_rels = <<>>
    /\ next_id = 0
    /\ load_user_ids = <<>>
    /\ user_ids = <<>>
    /\ follower_data = <<>>
    /\ pg_users = {}
    /\ pg_followers = <<>>

Init == InitGen /\ QueryIdle /\ SkillsIdle /\ LoadIdle /\ SeedIdle /\ PurgeIdle /\ TxIdle

(***************************************************************************)
(* create_social_graph (neo4j_social.py).                                  *)
(***************************************************************************)
neoMem == <<user_names, user_uuids, relationships_to_create>>
neoStore == <<neo_nodes, neo_rels>>
pgMem == <<users_data, load_user_ids, user_ids, follower_data>>
pgStore == <<pg_users, pg_followers>>

\* First write transaction: MATCH (n) DETACH DELETE n.
NeoPurge(n) ==
    /\ backend = "neo4j" /\ pc = "idle" /\ runs < MaxRuns
    /\ runs' = runs + 1
    /\ num_users' = n
    /\ outcome' = "running"
    /\ neo_nodes' = {}
    /\ neo_rels' = <<>>
    /\ user_names' = {}
    /\ user_uuids' = <<>>
    /\ relationships_to_create' = <<>>
    /\ i' = 1
    /\ pc' = "users"
    /\ UNCHANGED <<backend, source_names, next_uuid, next_id, followers_pk, pgMem, pgStore,
                   queryVars, skillVars,
                   loadVars, seedVars,
                   purgeVars, txVars>>

\* person.full_name(): one of the names the source holds; a name is modelled
\* by its index in the source.
full_name == 1..source_names

\* One iteration of `while len(user_names) < num_users`: a name already in the
\* set leaves the set as it is.
NeoDrawName ==
    /\ pc = "users" /\ Cardinality(user_names) < num_users
    /\ \E name \in full_name : user_names' = user_names \cup {name}
    /\ UNCHANGED <<backend, source_names, pc, runs, outcome, num_users, users_data, i,
                   next_uuid, user_uuids, relationships_to_create, neoStore, next_id,
                   followers_pk, load_user_ids, user_ids, follower_data, pgStore,
                   queryVars, skillVars,
                   loadVars, seedVars,
                   purgeVars, txVars>>

\* One uuid for the whole list (str(uuid.uuid4()) hoisted out of the comprehension).
uuid4_once(k) == next_uuid + 1

\* str(uuid.uuid4()) of the k-th name: a value no earlier call returned.
uuid4(k) == next_uuid + k

\* The loop is left, and each name of the set gets its uuid.
NeoCreateUsers ==
    /\ pc = "users" /\ ~(Cardinality(user_names) < num_users)
    /\ user_uuids' = [k \in 1..Cardinality(user_names) |-> uuid4(k)]
    /\ next_uuid' = next_uuid + Cardinality(user_names)
    /\ i' = 1
    /\ pc' = "follow"
    /\ UNCHANGED <<backend, source_names, runs, outcome, num_users, user_names,
                   users_data, relationships_to_create,
                   neoStore, next_id, followers_pk, pgMem, pgStore,
                   queryVars, skillVars,
                   loadVars, seedVars,
                   purgeVars, txVars>>

\* One iteration of `for follower_uuid in user_uuids`.
NeoFollow ==
    /\ pc = "follow" /\ i <= Len(user_uuids)
    /\ LET follower_uuid == user_uuids[i]
           potential == potential_users(user_uuids, follower_uuid)
       IN  \E num_to_follow \in num_to_follow_choices("neo4j") :
           \E users_to_follow \in
                  random_sample(potential, Min(num_to_follow, Len(potential))) :
               relationships_to_create' =
                   relationships_to_create \o NeoPairs(follower_uuid, users_to_follow)
    /\ i' = i + 1
    /\ UNCHANGED <<backend, source_names, pc, runs, outcome, num_users, user_names,
                   next_uuid, user_uuids,
                   neoStore, next_id, followers_pk, pgMem, pgStore,
                   queryVars, skillVars,
                   loadVars, seedVars,
                   purgeVars, txVars>>

\* The relationships whose two MATCH clauses find a node.
Matched(rels, nodes) == SelectSeq(rels, LAMBDA r : r[1] \in nodes /\ r[2] \in nodes)

\* Second write transaction: _bulk_create_users_and_relationships.
NeoBulkCreate ==
    /\ pc = "follow" /\ i > Len(user_uuids)
    /\ neo_nodes' = neo_nodes \cup Range(user_uuids)
    /\ neo_rels' = neo_rels \o Matched(relationships_to_create,
                                       neo_nodes \cup Range(user_uuids))
    /\ outcome' = "ok"
    /\ pc' = "idle"
    /\ UNCHANGED <<backend, source_names, runs, num_users, i, next_uuid, neoMem, next_id,
                   followers_pk, pgMem, pgStore,
                   queryVars, skillVars,
                   loadVars, seedVars,
                   purgeVars, txVars>>

(***************************************************************************)
(* postgres_populate_data (script.py): load_data, then add_followers       *)
(* (postgres.py).  Each function opens its own connection; psycopg commits *)
(* when the `with psycopg.connect(...)` block ends and rolls back when it  *)
(* is left by an exception, so each function is one transaction.  The      *)
(* tables skills, positions, education and users_skills are read by none   *)
(* of the operations of this specification and are left out of it (the     *)
(* skill rows of load_data are the subject of SpecSkillSets).              *)
(***************************************************************************)
\* load_data(num_users=n): COPY n rows into users, then read back the n highest ids.
PgLoadData(n) ==
    /\ backend = "postgres" /\ pc = "idle" /\ runs < MaxRuns
    /\ Cardinality(pg_users) + n <= MaxPgRows
    /\ runs' = runs + 1
    /\ num_users' = n
    /\ outcome' = "running"
    /\ users_data' \in [1..n -> full_name]
    /\ pg_users' = pg_users \cup (next_id + 1 .. next_id + n)
    /\ next_id' = next_id + n
    /\ LET ids == SortedSeq(pg_users')
       IN  load_user_ids' = SubSeq(ids, Len(ids) - Min(n, Len(ids)) + 1, Len(ids))
    /\ user_ids' = <<>>
    /\ follower_data' = <<>>
    /\ i' = 1
    /\ pc' = "loaded"
    /\ UNCHANGED <<backend, source_names, next_uuid, neoMem, neoStore, followers_pk, pg_followers,
                   queryVars, skillVars,
                   loadVars, seedVars,
                   purgeVars, txVars>>

\* add_followers up to its loop: SELECT id FROM USERS, and the size check.
PgSelectUsers ==
    /\ pc = "loaded"
    /\ user_ids' = SortedSeq(pg_users)
    /\ users_data' = <<>>
    /\ i' = 1
    /\ IF Len(user_ids') < 2
         THEN pc' = "idle" /\ outcome' = "error"      \* raise Exception("Not enough users ...")
         ELSE pc' = "pg_follow" /\ UNCHANGED outcome
    /\ UNCHANGED <<backend, source_names, runs, num_users, next_uuid, neoMem, neoStore, next_id,
                   followers_pk, load_user_ids, follower_data, pgStore,
                   queryVars, skillVars,
                   loadVars, seedVars,
                   purgeVars, txVars>>

\* One iteration of `for follower_id in user_ids`.
PgFollow ==
    /\ pc = "pg_follow" /\ i <= Len(user_ids)
    /\ LET follower_id == user_ids[i]
           potential == potential_users(user_ids, follower_id)
       IN  \E drawn \in num_to_follow_choices("postgres") :
           LET num_to_follow == Min(drawn, Len(potential))
           IN  \E users_to_follow \in random_sample(potential, num_to_follow) :
                   follower_data' = follower_data \o PgPairs(follower_id, users_to_follow)
    /\ i' = i + 1
    /\ UNCHANGED <<backend, source_names, pc, runs, outcome, num_users, next_uuid, neoMem, neoStore,
                   next_id, followers_pk, users_data, load_user_ids, user_ids, pgStore,
                   queryVars, skillVars,
                   loadVars, seedVars,
                   purgeVars, txVars>>

\* A list holds some row twice.
HasDuplicate(rows) == \E a, b \in 1..Len(rows) : a # b /\ rows[a] = rows[b]

\* COPY followers (user_id, follower_id) FROM STDIN, and the commit.  A key on
\* (user_id, follower_id) rejects the batch when it repeats a row.
PgCopyFollowers ==
    /\ pc = "pg_follow" /\ i > Len(user_ids)
    /\ IF followers_pk /\ HasDuplicate(pg_followers \o follower_data)
         THEN outcome' = "error" /\ UNCHANGED pg_followers
         ELSE outcome' = "ok" /\ pg_followers' = pg_followers \o follower_data
    /\ pc' = "idle"
    /\ UNCHANGED <<backend, source_names, runs, num_users, i, next_uuid, neoMem, neoStore, next_id,
                   followers_pk, pgMem, pg_users,
                   queryVars, skillVars,
                   loadVars, seedVars,
                   purgeVars, txVars>>

Next ==
    \/ \E n \in 0..MaxNeoUsers : NeoPurge(n)
    \/ NeoDrawName
    \/ NeoCreateUsers
    \/ NeoFollow
    \/ NeoBulkCreate
    \/ \E n \in 0..MaxPgLoad : PgLoadData(n)
    \/ PgSelectUsers
    \/ PgFollow
    \/ PgCopyFollowers

Spec == Init /\ [][Next]_vars

(***************************************************************************)
(* Views of the generated graph and of the store, shared by both backends. *)
(* An edge is read as <<follower, followee>>.                              *)
(***************************************************************************)
GeneratedUsers == IF backend = "neo4j" THEN user_uuids ELSE user_ids

GeneratedEdges ==
    IF backend = "neo4j" THEN relationships_to_create
    ELSE [k \in 1..Len(follower_data) |-> <<follower_data[k][2], follower_data[k][1]>>]

\* The users the latest generation command created.
RunUsers == IF backend = "neo4j" THEN Range(user_uuids) ELSE Range(load_user_ids)

StoreUsers == IF backend = "neo4j" THEN neo_nodes ELSE pg_users

StoreEdges ==
    IF backend = "neo4j" THEN neo_rels
    ELSE [k \in 1..Len(pg_followers) |-> <<pg_followers[k][2], pg_followers[k][1]>>]

OutDegree(edges, u) == Cardinality({k \in 1..Len(edges) : edges[k][1] = u})

MinOutDegree == IF backend = "neo4j" THEN neo_min_follow ELSE pg_min_follow
MaxOutDegree == IF backend = "neo4j" THEN neo_max_follow ELSE pg_max_follow

\* The generation command has run to its end and its batch is in the store.
GenerationDone == pc = "idle" /\ outcome = "ok"

(***************************************************************************)
(* Claims about generation, checked under Spec.                            *)
(***************************************************************************)

\* C1: no generated edge has its follower equal to its followee, in either
\* generator, at any point of the generation loop.
C1_NoSelfLoop ==
    \A k \in 1..Len(GeneratedEdges) : GeneratedEdges[k][1] # GeneratedEdges[k][2]

\* C1 witness: create_social_graph finished a graph of three users with edges.
C1_Witness ==
    /\ backend = "neo4j" /\ GenerationDone
    /\ Len(user_uuids) = 3 /\ Len(relationships_to_create) >= 4

\* C2: within one generation pass each ordered (follower, followee) pair is
\* in the emitted edge list at most once.
C2_NoDuplicateEdge == ~HasDuplicate(GeneratedEdges)

\* C2 witness: add_followers emitted the edges of three users, two per follower.
C2_Witness ==
    /\ backend = "postgres" /\ GenerationDone
    /\ Len(user_ids) = 3 /\ Len(follower_data) = 6

C4_SingleSnapshot ==
    GenerationDone =>
        /\ StoreUsers = RunUsers
        /\ StoreEdges = GeneratedEdges

\* C5: at every point where a query can read the store (between two
\* transactions), the store holds no graph at all or the complete users and
\* follow edges of one run (a run of fewer than two users has no edge to load).
C5_NoPartialGraph ==
    \/ StoreUsers = {} /\ StoreEdges = <<>>
    \/ /\ StoreUsers = RunUsers
       /\ StoreEdges = GeneratedEdges
       /\ (pc = "idle" \/ Cardinality(StoreUsers) < 2)

\* The population the edge generator works on, and the parameter precondition
\* 0 <= min <= max < population with a population of at least two.
Population == IF backend = "neo4j" THEN num_users ELSE Cardinality(pg_users)

ValidParameters ==
    /\ Population >= 2
    /\ 0 <= MinOutDegree /\ MinOutDegree <= MaxOutDegree
    /\ MaxOutDegree < Population

\* C11: a generation command whose population is below two, or whose out-degree
\* bounds do not satisfy 0 <= min <= max < population, ends in an error and has
\* produced no vertex and no edge (create_social_graph and add_followers).
C11_InvalidParameterRejected ==
    (pc = "idle" /\ runs > 0 /\ ~ValidParameters) =>
        /\ outcome = "error"
        /\ GeneratedEdges = <<>>
        /\ (backend = "neo4j" => user_uuids = <<>>)

\* C12: the name-drawing loop is never caught short of its target with no way
\* on: while it still needs names, either the source can yield a name the set
\* lacks (a retry can make progress) or the run has failed.
C12_NameLoopNeverStuck ==
    (pc = "users" /\ Cardinality(user_names) < num_users) =>
        \/ full_name \ user_names # {}
        \/ outcome = "error"

\* The keys of the users the latest generation command created, in list order.
RunKeys == IF backend = "neo4j" THEN user_uuids ELSE load_user_ids

\* C13: once the users of a run are generated there are exactly num_users of
\* them and their keys (uuid, users.id) are pairwise distinct, also when the
\* name source returned one name more than once.
C13_DistinctKeys ==
    (runs > 0 /\ pc # "users") =>
        /\ Len(RunKeys) = num_users
        /\ ~HasDuplicate(RunKeys)
        /\ (backend = "neo4j" => Cardinality(user_names) = num_users)
        /\ (pc = "loaded" => Len(users_data) = num_users)

\* C13 witness: load_data has inserted three rows, two of them under one
\* name, and fetched three ids.
C13_Witness ==
    /\ backend = "postgres" /\ pc = "loaded" /\ num_users = 3
    /\ users_data[1] = users_data[2] /\ users_data[2] # users_data[3]
    /\ Len(load_user_ids) = 3

\* C16: after a generation command that failed, the store holds none of the
\* users that command inserted.
C16_FailedLoadPurged ==
    (pc = "idle" /\ outcome = "error") => StoreUsers \cap RunUsers = {}

\* C19: edges are generated only once the vertices of the run are all
\* generated, both endpoints of every generated edge are users of that same
\* run, and in the graph store every generated edge is created.
C19_VerticesBeforeEdges ==
    /\ GeneratedEdges # <<>> => (pc # "users" /\ Len(RunKeys) = num_users)
    /\ \A k \in 1..Len(GeneratedEdges) :
           GeneratedEdges[k][1] \in RunUsers /\ GeneratedEdges[k][2] \in RunUsers
    /\ (backend = "neo4j" /\ GenerationDone) => StoreEdges = GeneratedEdges

(***************************************************************************)
(* The graph queries of neo4j_social.py (SpecQuery).  A query is a read    *)
(* transaction over whatever the store holds, so the graph is drawn from   *)
(* every follow graph without self-loops over up to MaxQueryUsers users    *)
(* (the graphs create_social_graph loads are among them), and the graph of *)
(* the documented scenario A->B, A->C, B->D, C->D, C->E.  Nodes are uuids, *)
(* each with a name; names are pairwise different, as create_social_graph  *)
(* takes them from a set.  A behaviour is one command of the command line: *)
(* a process that finds the store as it is and runs its one query.         *)
(***************************************************************************)
MaxQueryUsers == 3    \* most users of a drawn graph
MaxThreshold == 2     \* largest $minFollowers drawn besides the one the code binds

\* minimum_followers in _get_influential_followers.
minimum_followers == 7

NamePool == <<"A", "B", "C", "D", "E", "F">>

Scenario ==
    [nodes |-> 1..5,
     name  |-> [u \in 1..5 |-> NamePool[u]],
     edges |-> {<<1, 2>>, <<1, 3>>, <<2, 4>>, <<3, 4>>, <<3, 5>>}]

\* uuid4 values and names are unrelated: names ascend or descend with the uuid.
NameAssignments(n) == {[u \in 1..n |-> NamePool[u]], [u \in 1..n |-> NamePool[n + 1 - u]]}

Graphs ==
    {Scenario} \cup
    UNION {{[nodes |-> 1..n, name |-> nm, edges |-> E] :
                nm \in NameAssignments(n),
                E \in SUBSET {e \in (1..n) \X (1..n) : e[1] # e[2]}} :
           n \in 0..MaxQueryUsers}

Thresholds == (0..MaxThreshold) \cup {minimum_followers}

\* size( (f)<-[:FOLLOWS]-() ): the number of relationships that end in f.
InDegree(g, f) == Cardinality({e \in g.edges : e[2] = f})

\* WHERE u <> fof, without the NOT (u)-[:FOLLOWS]->(fof) conjunct.
fof_where_not_self(g, u, fof) == u # fof

\* WHERE u <> fof AND NOT (u)-[:FOLLOWS]->(fof)
fof_where(g, u, fof) == u # fof /\ <<u, fof>> \notin g.edges

\* _get_friends_of_friends: the matches of
\*   (u:User {uuid: $uuid})-[:FOLLOWS]->(friend:User)-[:FOLLOWS]->(fof:User)
\* (two different relationships), filtered, and RETURN DISTINCT fof.name.
get_friends_of_friends(g, user_uuid) ==
    LET matches ==
            {p \in g.nodes \X g.nodes \X g.nodes :
                /\ p[1] = user_uuid
                /\ <<p[1], p[2]>> \in g.edges
                /\ <<p[2], p[3]>> \in g.edges
                /\ <<p[1], p[2]>> # <<p[2], p[3]>>
                /\ fof_where(g, p[1], p[3])}
    IN  {g.name[p[3]] : p \in matches}

\* The second WHERE with a strict comparison.
count_where_strict(c, m) == c > m

\* WHERE influentialFollowerCount >= $minFollowers
count_where(c, m) == c >= m

\* The rows with OPTIONAL MATCH in place of MATCH: every user forms a group, a
\* user without a qualifying follower with count 0.
influential_rows_optional_match(g, m) ==
    LET matches == {e \in g.edges : InDegree(g, e[1]) >= m}
        count(u) == Cardinality({e \in matches : e[2] = u})
    IN  {[userName |-> g.name[u], influentialFollowerCount |-> count(u)] :
            u \in {v \in g.nodes : count_where(count(v), m)}}

\* _get_influential_followers before its ORDER BY: the rows of
\*   MATCH (follower)-[:FOLLOWS]->(u) WHERE size((follower)<-[:FOLLOWS]-()) >= m
\*   WITH u, count(follower) AS influentialFollowerCount WHERE ... >= m
\* A user no row of the MATCH names forms no group.
influential_rows(g, m) ==
    LET matches == {e \in g.edges : InDegree(g, e[1]) >= m}
        grouped == {e[2] : e \in matches}
        count(u) == Cardinality({e \in matches : e[2] = u})
    IN  {[userName |-> g.name[u], influentialFollowerCount |-> count(u)] :
            u \in {v \in grouped : count_where(count(v), m)}}

\* The lists that hold every row of a set once.
Orderings(rows) ==
    {s \in [1..Cardinality(rows) -> rows] :
        \A a, b \in 1..Cardinality(rows) : a # b => s[a] # s[b]}

\* ORDER BY influentialFollowerCount DESC: any list of the rows whose counts
\* never ascend; rows of equal count come in an order the store chooses.
get_influential_followers(g, m) ==
    {s \in Orderings(influential_rows(g, m)) :
        \A a, b \in 1..Len(s) :
            a < b => s[a].influentialFollowerCount >= s[b].influentialFollowerCount}

\* The generation variables while only queries run.
GenIdle ==
    /\ backend = "neo4j" /\ followers_pk = FALSE /\ pc = "idle" /\ runs = 0
    /\ outcome = "none" /\ num_users = 0 /\ i = 1 /\ next_uuid = 0
    /\ source_names = 1 /\ user_names = {} /\ users_data = <<>>
    /\ user_uuids = <<>> /\ relationships_to_create = <<>>
    /\ neo_nodes = {} /\ neo_rels = <<>> /\ next_id = 0
    /\ load_user_ids = <<>> /\ user_ids = <<>> /\ follower_data = <<>>
    /\ pg_users = {} /\ pg_followers = <<>>
    /\ LoadIdle /\ SeedIdle

InitQuery ==
    /\ GenIdle /\ SkillsIdle /\ PurgeIdle /\ TxIdle
    /\ graph \in Graphs
    /\ query = [op |-> "none"]

\* query_friends_of_friends on a store without users: `if not result: return`.
QueryNoUsers ==
    /\ query.op = "none"
    /\ graph.nodes = {}
    /\ query' = [op |-> "no_users"]
    /\ UNCHANGED <<graph, genVars, skillVars,
                   loadVars, seedVars,
                   purgeVars, txVars>>

\* query_friends_of_friends: a random user, then the read transaction.
QueryFriendsOfFriends ==
    /\ query.op = "none"
    /\ graph.nodes # {}
    /\ \E random_user \in graph.nodes :
           LET fof_result == get_friends_of_friends(graph, random_user)
           IN  query' = [op |-> "friends_of_friends", user |-> random_user,
                         rows |-> fof_result,
                         printed |-> IF fof_result # {} THEN "names" ELSE "none_found"]
    /\ UNCHANGED <<graph, genVars, skillVars,
                   loadVars, seedVars,
                   purgeVars, txVars>>

\* query_influential_followers: the read transaction with $minFollowers = m.
QueryInfluentialFollowers ==
    /\ query.op = "none"
    /\ \E m \in Thresholds :
       \E results \in get_influential_followers(graph, m) :
           query' = [op |-> "influential_followers", m |-> m, rows |-> results]
    /\ UNCHANGED <<graph, genVars, skillVars,
                   loadVars, seedVars,
                   purgeVars, txVars>>

\* _get_followers: one row per follower of the user, with both names.
get_followers(g, user_uuid) ==
    {[user_name |-> g.name[user_uuid], follower_name |-> g.name[follower]] :
        follower \in {f \in g.nodes : <<f, user_uuid>> \in g.edges}}

\* query_followers_of_random_user.  Without users it prints and returns.  With
\* followers it prints their names.  In the else branch it evaluates
\* session.read_transactions, an attribute the session does not have, which
\* raises AttributeError before any query is sent or anything is printed.
QueryFollowersOfRandomUser ==
    /\ query.op = "none"
    /\ IF graph.nodes = {}
         THEN query' = [op |-> "followers_of_random_user", user |-> 0, rows |-> {},
                        printed |-> "no_users", raised |-> FALSE]
         ELSE \E random_user_uuid \in graph.nodes :
                  LET followers_result == get_followers(graph, random_user_uuid)
                  IN  query' = [op |-> "followers_of_random_user",
                                user |-> random_user_uuid,
                                rows |-> followers_result,
                                printed |-> IF followers_result # {}
                                              THEN "followers" ELSE "nothing",
                                raised |-> followers_result = {}]
    /\ UNCHANGED <<graph, genVars, skillVars,
                   loadVars, seedVars,
                   purgeVars, txVars>>

NextQuery ==
    \/ QueryNoUsers
    \/ QueryFriendsOfFriends
    \/ QueryInfluentialFollowers
    \/ QueryFollowersOfRandomUser

SpecQuery == InitQuery /\ [][NextQuery]_vars

(***************************************************************************)
(* Claims about the graph queries, checked under SpecQuery.                *)
(***************************************************************************)
\* The users two follow edges away from u that u is not and does not follow.
TwoHopTargets(g, u) ==
    {w \in g.nodes :
        /\ w # u
        /\ <<u, w>> \notin g.edges
        /\ \E v \in g.nodes : <<u, v>> \in g.edges /\ <<v, w>> \in g.edges}

\* The followers of u whose own in-degree is at least m.
InfluentialFollowersOf(g, u, m) ==
    {f \in g.nodes : <<f, u>> \in g.edges /\ InDegree(g, f) >= m}

\* The node a result row names.
KeyOf(g, userName) == CHOOSE u \in g.nodes : g.name[u] = userName

\* C6: friends-of-friends of u returns exactly the users w with u->v->w for
\* some v, w # u and no edge u->w, each once; an empty result is reported as a
\* normal outcome; on the scenario graph the result for A is {D, E}.
C6_FriendsOfFriends ==
    query.op = "friends_of_friends" =>
        LET expected == TwoHopTargets(graph, query.user)
        IN  /\ query.rows = {graph.name[w] : w \in expected}
            /\ Cardinality(query.rows) = Cardinality(expected)
            /\ (expected = {} <=> query.printed = "none_found")
            /\ (graph = Scenario /\ query.user = 1 => query.rows = {"D", "E"})

\* C6 witness: the query ran for A on the scenario graph, where D is reached
\* through both B and C, and returned D and E.
C6_Witness ==
    /\ query.op = "friends_of_friends" /\ graph = Scenario /\ query.user = 1
    /\ query.rows = {"D", "E"}

\* C7 as stated: u is reported with count c exactly when
\* c = |{f : f->u, in-degree(f) >= m}| and c >= m.
C7_InfluentialAsStated ==
    query.op = "influential_followers" =>
        Range(query.rows) =
            {[userName |-> graph.name[u],
              influentialFollowerCount |->
                  Cardinality(InfluentialFollowersOf(graph, u, query.m))] :
                u \in {v \in graph.nodes :
                          Cardinality(InfluentialFollowersOf(graph, v, query.m)) >= query.m}}

\* C7 amended: u is reported with count c exactly when
\* c = |{f : f->u, in-degree(f) >= m}|, c >= m and c >= 1 (a user without a
\* qualifying follower is not reported, also when m = 0); on the scenario graph
\* with m = 1, D is reported with count 2.
C7_InfluentialFollowers ==
    query.op = "influential_followers" =>
        /\ Range(query.rows) =
               {[userName |-> graph.name[u],
                 influentialFollowerCount |->
                     Cardinality(InfluentialFollowersOf(graph, u, query.m))] :
                   u \in {v \in graph.nodes :
                             /\ Cardinality(InfluentialFollowersOf(graph, v, query.m)) >= query.m
                             /\ Cardinality(InfluentialFollowersOf(graph, v, query.m)) >= 1}}
        /\ (graph = Scenario /\ query.m = 1 =>
               [userName |-> "D", influentialFollowerCount |-> 2] \in Range(query.rows))

\* C7 witness: the query ran on the scenario graph with m = 1 and reported D
\* with count 2, while A (no follower) is not reported.
C7_Witness ==
    /\ query.op = "influential_followers" /\ graph = Scenario /\ query.m = 1
    /\ [userName |-> "D", influentialFollowerCount |-> 2] \in Range(query.rows)
    /\ \A k \in 1..Len(query.rows) : query.rows[k].userName # "A"

\* C8: the influential-followers result is ordered by count descending and,
\* among equal counts, by user key ascending.
C8_OrderWithTieBreak ==
    query.op = "influential_followers" =>
        \A a, b \in 1..Len(query.rows) :
            a < b =>
                \/ query.rows[a].influentialFollowerCount > query.rows[b].influentialFollowerCount
                \/ /\ query.rows[a].influentialFollowerCount = query.rows[b].influentialFollowerCount
                   /\ KeyOf(graph, query.rows[a].userName) < KeyOf(graph, query.rows[b].userName)

\* C20: for every graph and every threshold m, m = 0 included, a user none of
\* whose followers has an in-degree of at least m is named by no row of the
\* influential-followers result.
C20_NoQualifyingFollowerNotReported ==
    query.op = "influential_followers" =>
        \A u \in graph.nodes :
            InfluentialFollowersOf(graph, u, query.m) = {} =>
                \A k \in 1..Len(query.rows) : query.rows[k].userName # graph.name[u]

\* C20 witness: the query ran with m = 0 on the scenario graph: A, whom nobody
\* follows, is in no row while the four users with a follower are reported.
C20_Witness ==
    /\ query.op = "influential_followers" /\ graph = Scenario /\ query.m = 0
    /\ InfluentialFollowersOf(graph, 1, 0) = {}
    /\ {query.rows[k].userName : k \in 1..Len(query.rows)} = {"B", "C", "D", "E"}

\* C21: when query_followers_of_random_user selects a user nobody follows, it
\* reports that the user has no followers and ends without raising.
C21_NoFollowersIsNormal ==
    (/\ query.op = "followers_of_random_user"
     /\ query.printed # "no_users"
     /\ InDegree(graph, query.user) = 0)
        => (query.printed = "no_followers" /\ ~query.raised)

(***************************************************************************)
(* The resumes collection and its two skill counts, mongodb.py             *)
(* (SpecSkills).  A document is modelled by its skills array, the only     *)
(* field the two analyses read.                                            *)
(***************************************************************************)
MaxResumes == 2       \* most documents in collection resumes
SkillWindow == 4      \* samples are drawn among the first SkillWindow catalogue entries

\* skills_list in get_random_skills.
skills_list ==
    <<"Python", "Go", "Docker", "PostgreSQL", "Kubernetes",
      "React", "VueJS", "AWS", "GCP", "Azure",
      "Terraform", "CI/CD", "DevOps", "NextJS", "GenAI",
      "LangChain/LangGraph", "AI Agents">>

\* random.randint(3, 7) in get_random_skills.
min_skills == 3
max_skills == 7

\* The UTF-8 bytes of a skill name.
Bytes(s) ==
    CASE s = "Python" -> <<80, 121, 116, 104, 111, 110>>
      [] s = "Go" -> <<71, 111>>
      [] s = "Docker" -> <<68, 111, 99, 107, 101, 114>>
      [] s = "PostgreSQL" -> <<80, 111, 115, 116, 103, 114, 101, 83, 81, 76>>
      [] s = "Kubernetes" -> <<75, 117, 98, 101, 114, 110, 101, 116, 101, 115>>
      [] s = "React" -> <<82, 101, 97, 99, 116>>
      [] s = "VueJS" -> <<86, 117, 101, 74, 83>>
      [] s = "AWS" -> <<65, 87, 83>>
      [] s = "GCP" -> <<71, 67, 80>>
      [] s = "Azure" -> <<65, 122, 117, 114, 101>>
      [] s = "Terraform" -> <<84, 101, 114, 114, 97, 102, 111, 114, 109>>
      [] s = "CI/CD" -> <<67, 73, 47, 67, 68>>
      [] s = "DevOps" -> <<68, 101, 118, 79, 112, 115>>
      [] s = "NextJS" -> <<78, 101, 120, 116, 74, 83>>
      [] s = "GenAI" -> <<71, 101, 110, 65, 73>>
      [] s = "LangChain/LangGraph" -> <<76, 97, 110, 103, 67, 104, 97, 105, 110, 47, 76, 97, 110, 103, 71, 114, 97, 112, 104>>
      [] s = "AI Agents" -> <<65, 73, 32, 65, 103, 101, 110, 116, 115>>

RECURSIVE LexLess(_, _)
\* Byte-wise comparison of two strings, the order of MongoDB's sort on _id.
LexLess(a, b) ==
    IF b = <<>> THEN FALSE
    ELSE IF a = <<>> THEN TRUE
    ELSE IF a[1] # b[1] THEN a[1] < b[1]
    ELSE LexLess(Tail(a), Tail(b))

\* get_random_skills: random.sample(skills_list, random.randint(3, 7)).
get_random_skills ==
    UNION {random_sample(SubSeq(skills_list, 1, SkillWindow), k) : k \in min_skills..max_skills}

\* Stage 1, $unwind: "$skills": one document per array element, named here by
\* <<document, position>>.
unwind(docs) == {<<d, j>> \in (1..Len(docs)) \X (1..max_skills) : j <= Len(docs[d].skills)}

\* {"$sum": "$count"} over documents without that field adds nothing.
sum_missing_field(members) == 0

\* {"$sum": 1}: one per document of the group.
sum_one(members) == Cardinality(members)

\* Stage 2, $group by the skill with a count per group.
group(docs, unwound) ==
    {[_id |-> s, count |-> sum_one({e \in unwound : docs[e[1]].skills[e[2]] = s})] :
        s \in {docs[e[1]].skills[e[2]] : e \in unwound}}

RECURSIVE sort_descending(_)
\* The sort with direction -1.
sort_descending(rows) ==
    IF rows = {} THEN <<>>
    ELSE LET first == CHOOSE r \in rows :
                          \A o \in rows : o = r \/ ~LexLess(Bytes(r._id), Bytes(o._id))
         IN  <<first>> \o sort_descending(rows \ {first})

RECURSIVE sort_by_id(_)
\* Stage 3, {"$sort": {"_id": 1}}, and find().sort("_id"): ascending by _id.
\* The rows have pairwise different _id, so the order is determined.
sort_by_id(rows) ==
    IF rows = {} THEN <<>>
    ELSE LET first == CHOOSE r \in rows :
                          \A o \in rows : o = r \/ ~LexLess(Bytes(o._id), Bytes(r._id))
         IN  <<first>> \o sort_by_id(rows \ {first})

\* list(resumes_collection.aggregate(pipeline))
aggregate(docs) == sort_by_id(group(docs, unwind(docs)))

RECURSIVE ArraySum(_)
\* Array.sum(values) of the reducer.
ArraySum(values) == IF values = <<>> THEN 0 ELSE Head(values) + ArraySum(Tail(values))

\* The mapper emits (skill, 1) per array element; the reducer is called for a
\* key with several values, a key with one value keeps it.
map_reduce(docs) ==
    LET emitted == unwind(docs)
        keys == {docs[e[1]].skills[e[2]] : e \in emitted}
        values(key) ==
            [k \in 1..Cardinality({e \in emitted : docs[e[1]].skills[e[2]] = key}) |-> 1]
    IN  {[_id |-> key,
          value |-> IF Len(values(key)) = 1 THEN values(key)[1] ELSE ArraySum(values(key))] :
            key \in keys}

InitSkills ==
    /\ GenIdle /\ QueryIdle /\ PurgeIdle /\ TxIdle
    /\ resumes = <<>>
    /\ skill_counts = {}
    /\ report = [op |-> "none"]

\* load_one_resume: insert_one of a document with freshly drawn skills.
LoadOneResume ==
    /\ Len(resumes) < MaxResumes
    /\ \E skills \in get_random_skills :
           resumes' = Append(resumes, [skills |-> skills])
    /\ UNCHANGED <<skill_counts, report, genVars, queryVars,
                   loadVars, seedVars,
                   purgeVars, txVars>>

\* The command handlers of script.py: `try: <analysis>; echo completion line`
\* with `except Exception: echo error; raise click.Abort()`.  raised tells
\* whether the analysis function left by an exception.
mongo_count_skills(raised) == IF raised THEN "aborted" ELSE "completed"

mongo_count_skills_mapreduce(raised) == IF raised THEN "aborted" ELSE "completed"

\* mongo count-skills: summary (count_documents and the aggregation pipeline),
\* then the command prints its completion line.
Summary ==
    /\ report' = [op |-> "summary", completed |-> TRUE,
                  cli |-> mongo_count_skills(FALSE),
                  docs |-> resumes, total_resumes |-> Len(resumes),
                  results |-> aggregate(resumes)]
    /\ UNCHANGED <<resumes, skill_counts, genVars, queryVars,
                   loadVars, seedVars,
                   purgeVars, txVars>>

\* mongo count-skills-mapreduce when the server runs the mapReduce command:
\* the output replaces collection skill_counts, which is then read back sorted
\* by _id; the command prints its completion line.
SummaryMapReduce ==
    /\ skill_counts' = map_reduce(resumes)
    /\ LET results == sort_by_id(skill_counts')
       IN  report' = [op |-> "mapreduce", completed |-> TRUE,
                      cli |-> mongo_count_skills_mapreduce(FALSE),
                      docs |-> resumes, total_resumes |-> Len(resumes),
                      results |-> [k \in 1..Len(results) |->
                                      [_id |-> results[k]._id,
                                       count |-> results[k].value]]]
    /\ UNCHANGED <<resumes, genVars, queryVars,
                   loadVars, seedVars,
                   purgeVars, txVars>>

\* mongo count-skills-mapreduce when db.command raises: the except clause of
\* summary_mapreduce prints and returns, so the command's own except clause
\* (click.Abort) is not entered and the command prints its completion line.
SummaryMapReduceFails ==
    /\ report' = [op |-> "mapreduce", completed |-> FALSE,
                  cli |-> mongo_count_skills_mapreduce(FALSE),
                  docs |-> resumes, total_resumes |-> Len(resumes), results |-> <<>>]
    /\ UNCHANGED <<resumes, skill_counts, genVars, queryVars,
                   loadVars, seedVars,
                   purgeVars, txVars>>

NextSkills ==
    \/ Summary
    \/ SummaryMapReduce
    \/ SummaryMapReduceFails
    \/ LoadOneResume

SpecSkills == InitSkills /\ [][NextSkills]_vars

(***************************************************************************)
(* Claims about the skill counts, checked under SpecSkills.                *)
(***************************************************************************)
\* The documents (users) the analysis read whose skills array holds s.
Holders(s) == {d \in 1..Len(report.docs) : s \in Range(report.docs[d].skills)}

\* C9: summary reports for each skill the number of different users holding
\* it; a skill nobody holds has no row; on zero users the result is empty.
C9_SkillCounts ==
    report.op = "summary" =>
        /\ \A s \in Range(skills_list) :
               LET rows == {k \in 1..Len(report.results) : report.results[k]._id = s}
               IN  IF Holders(s) = {}
                     THEN rows = {}
                     ELSE /\ Cardinality(rows) = 1
                          /\ \A k \in rows :
                                 report.results[k].count = Cardinality(Holders(s))
        /\ \A k \in 1..Len(report.results) : report.results[k]._id \in Range(skills_list)
        /\ (report.docs = <<>> => report.results = <<>>)

\* C9 witness: summary ran on two users, with a skill both hold reported with
\* 2, a skill one holds reported with 1 and a catalogue skill without a row.
C9_Witness ==
    /\ report.op = "summary" /\ Len(report.docs) = 2
    /\ \E a, b \in 1..Len(report.results) :
           report.results[a].count = 2 /\ report.results[b].count = 1
    /\ Len(report.results) < Len(skills_list)

\* C10: in the aggregation path and in the map-reduce path (when it completes)
\* the result is ordered by skill name strictly ascending byte-wise, so no
\* skill name has two rows.
C10_SortedBySkill ==
    (report.op \in {"summary", "mapreduce"} /\ report.completed) =>
        \A a, b \in 1..Len(report.results) :
            a < b => LexLess(Bytes(report.results[a]._id), Bytes(report.results[b]._id))

\* C10 witness: the map-reduce path completed with at least three rows, the
\* first of them a skill that comes later in the catalogue than the second.
C10_Witness ==
    /\ report.op = "mapreduce" /\ report.completed
    /\ Len(report.results) >= 3
    /\ report.results[1]._id = "Docker" /\ report.results[2]._id = "Go"

\* C14: when summary has reported on a collection and the map-reduce job then
\* completes on the same collection, the two results are equal, row by row
\* (same skills, same counts, same order).
C14_SummaryEqualsMapReduce ==
    [][(/\ report.op = "summary"
        /\ report'.op = "mapreduce" /\ report'.completed
        /\ report'.docs = report.docs)
          => report'.results = report.results]_vars

\* C14 witness: the map-reduce job completed on two users and reports one
\* skill with 2 (the reducer summed two values) and one with 1.
C14_Witness ==
    /\ report.op = "mapreduce" /\ report.completed /\ Len(report.docs) = 2
    /\ \E a, b \in 1..Len(report.results) :
           report.results[a].count = 2 /\ report.results[b].count = 1
    /\ report.results = aggregate(report.docs)

\* C15: an analysis that could not execute is not reported as completed: the
\* command that ran it ends aborted.
C15_FailureSurfaced ==
    (report.op \in {"summary", "mapreduce"} /\ ~report.completed) =>
        report.cli = "aborted"

(***************************************************************************)
(* The skill sets of the two resume generators (SpecSkillSets):            *)
(* load_one_resume of mongodb.py, and populate_initial_skills followed by  *)
(* load_data of postgres.py as postgres_populate_data runs them.  A        *)
(* behaviour follows one store.  load_data is one transaction; the rows it *)
(* generates for tables positions and education are read by no operation   *)
(* of the model and are left out.  As for get_random_skills, a sample is   *)
(* drawn among the first SkillWindow entries of the catalogue.             *)
(***************************************************************************)
MaxSkillUsers == 2    \* largest num_users given to load_data in SpecSkillSets

\* random.randint(1, 10) in load_data.
pg_min_skills == 1
pg_max_skills == 10

\* INSERT INTO skills ... ON CONFLICT (name) DO NOTHING over skills_list (the
\* list of populate_initial_skills equals the one of get_random_skills): the
\* names the table lacks, in list order.
skills_to_add(table) == SelectSeq(skills_list, LAMBDA skill : skill \notin Range(table))

\* skill_map[skill_name]: the id of the row of table skills with that name.
skill_map(skill_name) == CHOOSE id \in 1..Len(pg_skills) : pg_skills[id] = skill_name

\* The store is fresh (create-schemas) or holds the catalogue of an earlier
\* populate-data.
InitSkillSets ==
    /\ backend \in {"mongodb", "postgres"}
    /\ followers_pk = FALSE /\ pc = "idle" /\ runs = 0
    /\ outcome = "none" /\ num_users = 0 /\ i = 1 /\ next_uuid = 0
    /\ source_names = 1 /\ user_names = {} /\ users_data = <<>>
    /\ user_uuids = <<>> /\ relationships_to_create = <<>>
    /\ neo_nodes = {} /\ neo_rels = <<>> /\ next_id = 0
    /\ load_user_ids = <<>> /\ user_ids = <<>> /\ follower_data = <<>>
    /\ pg_users = {} /\ pg_followers = <<>>
    /\ QueryIdle /\ SkillsIdle /\ SeedIdle /\ PurgeIdle /\ TxIdle
    /\ pg_skills \in {<<>>, skills_list}
    /\ (backend = "mongodb" => pg_skills = <<>>)
    /\ users_skills_data = <<>>
    /\ users_skills = <<>>

\* mongo populate-data: one load_one_resume call.
MongoLoadOneResume ==
    /\ backend = "mongodb"
    /\ LoadOneResume

\* postgres populate-data, first step: populate_initial_skills.
PopulateInitialSkills ==
    /\ backend = "postgres" /\ pc = "idle" /\ runs = 0
    /\ runs' = 1
    /\ outcome' = "running"
    /\ pg_skills' = pg_skills \o skills_to_add(pg_skills)
    /\ pc' = "skills"
    /\ UNCHANGED <<backend, source_names, num_users, user_names, users_data, i,
                   next_uuid, user_uuids, relationships_to_create, neoStore,
                   next_id, followers_pk, load_user_ids, user_ids, follower_data,
                   pgStore, queryVars, skillVars,
                   users_skills_data, users_skills, seedVars,
                   purgeVars, txVars>>

\* load_data(num_users=n) up to its per-user loop: skill_map is read, n rows
\* are copied into users and their ids are read back.
LoadDataInsertUsers(n) ==
    /\ pc = "skills"
    /\ num_users' = n
    /\ users_data' \in [1..n -> full_name]
    /\ pg_users' = pg_users \cup (next_id + 1 .. next_id + n)
    /\ next_id' = next_id + n
    /\ LET ids == SortedSeq(pg_users')
       IN  load_user_ids' = SubSeq(ids, Len(ids) - Min(n, Len(ids)) + 1, Len(ids))
    /\ users_skills_data' = <<>>
    /\ i' = 1
    /\ pc' = "generate"
    /\ UNCHANGED <<backend, source_names, runs, outcome, user_names, next_uuid,
                   user_uuids, relationships_to_create, neoStore, followers_pk,
                   user_ids, follower_data, pg_followers, queryVars, skillVars,
                   pg_skills, users_skills, seedVars,
                   purgeVars, txVars>>

\* One iteration of `for user_id in user_ids`: the skills of one user.
LoadDataUserSkills ==
    /\ pc = "generate" /\ i <= Len(load_user_ids)
    /\ LET user_id == load_user_ids[i]
           skill_names == SubSeq(pg_skills, 1, SkillWindow)
       IN  \E k \in pg_min_skills..pg_max_skills :
           \E user_skills \in random_sample(skill_names, k) :
               users_skills_data' =
                   users_skills_data \o
                   [j \in 1..Len(user_skills) |-> <<user_id, skill_map(user_skills[j])>>]
    /\ i' = i + 1
    /\ UNCHANGED <<backend, source_names, pc, runs, outcome, num_users, user_names,
                   users_data, next_uuid, user_uuids, relationships_to_create,
                   neoStore, next_id, followers_pk, load_user_ids, user_ids,
                   follower_data, pgStore, queryVars, skillVars,
                   pg_skills, users_skills, seedVars,
                   purgeVars, txVars>>

\* COPY users_skills (user_id, skill_id) FROM STDIN, and the commit of load_data.
LoadDataCopy ==
    /\ pc = "generate" /\ i > Len(load_user_ids)
    /\ users_skills' = users_skills \o users_skills_data
    /\ pc' = "loaded"
    /\ UNCHANGED <<backend, source_names, runs, outcome, num_users, user_names,
                   users_data, i, next_uuid, user_uuids, relationships_to_create,
                   neoStore, next_id, followers_pk, load_user_ids, user_ids,
                   follower_data, pgStore, queryVars, skillVars,
                   pg_skills, users_skills_data, seedVars,
                   purgeVars, txVars>>

NextSkillSets ==
    \/ MongoLoadOneResume
    \/ PopulateInitialSkills
    \/ \E n \in 0..MaxSkillUsers : LoadDataInsertUsers(n)
    \/ LoadDataUserSkills
    \/ LoadDataCopy

SpecSkillSets == InitSkillSets /\ [][NextSkillSets]_vars

\* The skill ids load_data generated for a user, in list order.
UserSkillIds(user_id) ==
    LET rows == SelectSeq(users_skills_data, LAMBDA row : row[1] = user_id)
    IN  [j \in 1..Len(rows) |-> rows[j][2]]

\* A list of skills repeats none, lies in the catalogue and has 1 to 10 entries.
SkillSetOf(skills, catalogue) ==
    /\ ~HasDuplicate(skills)
    /\ Range(skills) \subseteq catalogue
    /\ 1 <= Len(skills) /\ Len(skills) <= 10

\* C17: the skills of every generated user are pairwise different skills of the
\* catalogue, at least 1 and at most 10 of them: for every document
\* load_one_resume inserted, and for every user load_data has generated rows
\* for, whatever table skills held before the command.
C17_SkillSets ==
    /\ \A d \in 1..Len(resumes) : SkillSetOf(resumes[d].skills, Range(skills_list))
    /\ pc \in {"generate", "loaded"} =>
           /\ \A k \in 1..Len(load_user_ids) :
                  k < i => SkillSetOf(UserSkillIds(load_user_ids[k]), 1..Len(pg_skills))
           /\ (pc = "loaded" => users_skills = users_skills_data)

\* C17 witness: load_data has stored the skills of two users, one with a
\* single skill and one with three or more.
C17_Witness ==
    /\ backend = "postgres" /\ pc = "loaded" /\ Len(load_user_ids) = 2
    /\ Len(UserSkillIds(load_user_ids[1])) = 1
    /\ Len(UserSkillIds(load_user_ids[2])) >= 3
    /\ users_skills = users_skills_data

(***************************************************************************)
(* Two runs of create_social_graph under one seed (SpecSeed).  The code    *)
(* takes no seed and never calls random.seed: the draws of random.randint  *)
(* and random.sample, uuid.uuid4 and the mimesis Person depend on no value *)
(* the caller controls, so whatever seed the caller holds, the draws are   *)
(* the free choices of NeoDrawName, NeoCreateUsers and NeoFollow.          *)
(***************************************************************************)
MaxSeed == 1          \* seeds are 0..MaxSeed

Seeds == 0..MaxSeed

InitSeed ==
    /\ InitGen /\ backend = "neo4j"
    /\ QueryIdle /\ SkillsIdle /\ LoadIdle /\ PurgeIdle /\ TxIdle
    /\ seed \in Seeds
    /\ seeded_runs = <<>>

\* The caller keeps the graph a completed run handed to the bulk create
\* (users_to_create, relationships_to_create) before it starts the next run.
RecordRun ==
    /\ backend = "neo4j" /\ GenerationDone
    /\ Len(seeded_runs) = runs - 1
    /\ seeded_runs' = Append(seeded_runs,
                             [num_users |-> num_users,
                              users |-> Range(user_uuids),
                              edges |-> Range(relationships_to_create)])
    /\ UNCHANGED <<genVars, queryVars, skillVars, loadVars, seed,
                   purgeVars, txVars>>

NextSeed ==
    \/ \E n \in 0..MaxNeoUsers : NeoPurge(n)
    \/ NeoDrawName
    \/ NeoCreateUsers
    \/ NeoFollow
    \/ NeoBulkCreate
    \/ RecordRun

SpecSeed == InitSeed /\ [][NextSeed]_vars

\* Some renaming of the user keys of g onto those of h carries the follow
\* relation of g onto that of h.
Isomorphic(g, h) ==
    \E f \in [g.users -> h.users] :
        /\ \A a, b \in g.users : a # b => f[a] # f[b]
        /\ {f[u] : u \in g.users} = h.users
        /\ {<<f[e[1]], f[e[2]]>> : e \in g.edges} = h.edges

\* C18: two runs (each purging first) with the same num_users and under the
\* same seed generate graphs that are equal up to a renaming of the user keys.
C18_SeededRunsIsomorphic ==
    (Len(seeded_runs) = 2 /\ seeded_runs[1].num_users = seeded_runs[2].num_users) =>
        Isomorphic(seeded_runs[1], seeded_runs[2])

(***************************************************************************)
(* purge_data of mongodb.py (SpecPurge).  The database is drawn at Init    *)
(* from states the other operations leave: no collection yet, resumes      *)
(* after load_one_resume calls, skill_counts after a map-reduce, and       *)
(* collections emptied by an earlier purge.                                *)
(***************************************************************************)
MaxPurges == 2        \* purge_data calls per behaviour

\* The lists of up to MaxResumes documents load_one_resume can have inserted.
ResumeLists ==
    UNION {[1..n -> {[skills |-> skills] : skills \in get_random_skills}] : n \in 0..MaxResumes}

\* collection.count_documents({}).
count_documents(collection_name) ==
    IF collection_name = "resumes" THEN Len(resumes) ELSE Cardinality(skill_counts)

\* The documents of every collection together.
database_count == Len(resumes) + Cardinality(skill_counts)

InitPurge ==
    /\ GenIdle /\ QueryIdle /\ TxIdle
    /\ collections \in {{}, {"resumes"}, {"resumes", "skill_counts"}}
    /\ resumes \in IF "resumes" \in collections THEN ResumeLists ELSE {<<>>}
    /\ skill_counts \in IF "skill_counts" \in collections
                          THEN {{}, map_reduce(resumes)} ELSE {{}}
    /\ report = [op |-> "none"]
    /\ purge_pc = "idle" /\ purge_names = {}
    /\ total_deleted = 0 /\ count_at_call = 0 /\ purges = <<>>

\* What a returned call leaves in `purges`.
purge_record(reported, total) ==
    [found |-> collections, before |-> count_at_call,
     reported |-> reported, total |-> total,
     after |-> [collections |-> collections, resumes |-> resumes,
                skill_counts |-> skill_counts]]

\* purge_data up to its loop: list_collection_names, and the return when the
\* database has no collection (it prints that none was found, and no total).
PurgeBegin ==
    /\ purge_pc = "idle" /\ Len(purges) < MaxPurges
    /\ IF collections = {}
         THEN /\ purges' = Append(purges,
                                  [purge_record(FALSE, 0) EXCEPT !.before = database_count])
              /\ UNCHANGED <<purge_pc, purge_names, total_deleted, count_at_call>>
         ELSE /\ purge_pc' = "loop"
              /\ purge_names' = collections
              /\ total_deleted' = 0
              /\ count_at_call' = database_count
              /\ UNCHANGED purges
    /\ UNCHANGED <<collections, genVars, queryVars, skillVars, loadVars, seedVars, txVars>>

\* `if count_before > 1`: a collection of one document is taken for empty.
count_above_one(count_before) == count_before > 1

\* `if count_before > 0`
count_above_zero(count_before) == count_before > 0

\* One iteration of `for collection_name in collections`, in the order
\* list_collection_names returned the names (any order).
PurgeCollection ==
    /\ purge_pc = "loop" /\ purge_names # {}
    /\ \E collection_name \in purge_names :
           LET count_before == count_documents(collection_name)
           IN  /\ purge_names' = purge_names \ {collection_name}
               /\ IF count_above_zero(count_before)
                    THEN /\ total_deleted' = total_deleted + count_before
                         /\ IF collection_name = "resumes"
                              THEN resumes' = <<>> /\ UNCHANGED skill_counts
                              ELSE skill_counts' = {} /\ UNCHANGED resumes
                    ELSE UNCHANGED <<total_deleted, resumes, skill_counts>>
    /\ UNCHANGED <<collections, purge_pc, count_at_call, purges, report,
                   genVars, queryVars, loadVars, seedVars, txVars>>

\* The loop is over: the total is printed and the call returns.
PurgeEnd ==
    /\ purge_pc = "loop" /\ purge_names = {}
    /\ purges' = Append(purges, purge_record(TRUE, total_deleted))
    /\ purge_pc' = "idle"
    /\ UNCHANGED <<collections, purge_names, total_deleted, count_at_call,
                   genVars, queryVars, skillVars, loadVars, seedVars, txVars>>

NextPurge ==
    \/ PurgeBegin
    \/ PurgeCollection
    \/ PurgeEnd

SpecPurge == InitPurge /\ [][NextPurge]_vars

\* C22: every returned purge_data call has left each collection it found in
\* place and without documents; the total it printed is the number of
\* documents the database held when it was called (a call that finds no
\* collection prints no total and there was nothing to delete); a call that
\* follows another deletes nothing and leaves the state the first one left.
C22_PurgeData ==
    /\ \A k \in 1..Len(purges) :
           LET p == purges[k]
           IN  /\ p.after.collections = p.found
               /\ p.after.resumes = <<>> /\ p.after.skill_counts = {}
               /\ (p.reported => p.total = p.before)
               /\ (~p.reported => (p.found = {} /\ p.before = 0))
               /\ (k > 1 => /\ p.before = 0 /\ p.total = 0
                            /\ p.after = purges[k - 1].after)
    /\ (purges # <<>> /\ purge_pc = "idle") =>
           /\ resumes = <<>> /\ skill_counts = {}
           /\ collections = purges[Len(purges)].found

\* C22 witness: a first call found both collections, deleted two resumes and
\* the skill counts, and a second call then reported a total of 0.
C22_Witness ==
    /\ Len(purges) = 2
    /\ purges[1].found = {"resumes", "skill_counts"}
    /\ purges[1].reported /\ purges[1].total >= 5
    /\ purges[2].reported /\ purges[2].total = 0
    /\ purges[2].found = {"resumes", "skill_counts"}

(***************************************************************************)
(* load_data calls of postgres.py whose transactions interleave            *)
(* (SpecLoadData): each call runs in its own connection, as two            *)
(* populate-data commands started side by side do.  PostgreSQL runs them   *)
(* at READ COMMITTED: a statement sees the rows committed before it began  *)
(* and the rows of its own transaction.  The serial sequence of users.id   *)
(* is shared and hands out each value once; a COPY takes its ids in one    *)
(* block here (concurrent COPY statements may also alternate).             *)
(***************************************************************************)
MaxTx == 2            \* load_data calls running side by side
MaxExistingUsers == 1 \* rows table users holds before the calls

Txs == 1..MaxTx

\* Rows of users committed by earlier commands (by |-> 0).
ExistingRows(k) == {[id |-> id, by |-> 0, committed |-> TRUE] : id \in 1..k}

InitLoadData ==
    /\ GenIdle /\ QueryIdle /\ SkillsIdle /\ PurgeIdle
    /\ tx_pc = [p \in Txs |-> "start"]
    /\ tx_num_users = [p \in Txs |-> 0]
    /\ tx_inserted = [p \in Txs |-> {}]
    /\ tx_user_ids = [p \in Txs |-> <<>>]
    /\ \E k \in 0..MaxExistingUsers : users_rows = ExistingRows(k) /\ users_id_seq = k
    /\ users_skills_rows = {}

\* COPY users (name) FROM STDIN with n rows, in the transaction of call p.
TxCopyUsers(p, n) ==
    /\ tx_pc[p] = "start"
    /\ tx_num_users' = [tx_num_users EXCEPT ![p] = n]
    /\ tx_inserted' = [tx_inserted EXCEPT ![p] = users_id_seq + 1 .. users_id_seq + n]
    /\ users_rows' = users_rows \cup
           {[id |-> id, by |-> p, committed |-> FALSE] :
               id \in users_id_seq + 1 .. users_id_seq + n}
    /\ users_id_seq' = users_id_seq + n
    /\ tx_pc' = [tx_pc EXCEPT ![p] = "copied"]
    /\ UNCHANGED <<tx_user_ids, users_skills_rows,
                   genVars, queryVars, skillVars, loadVars, seedVars, purgeVars>>

\* The ids call p can see: committed rows and the rows of its own transaction.
visible_ids(p) == {row.id : row \in {r \in users_rows : r.committed \/ r.by = p}}

\* SELECT id from users ORDER BY id DESC LIMIT n, reversed: the n highest
\* visible ids, ascending.
highest_ids(ids, n) ==
    LET sorted == SortedSeq(ids)
    IN  SubSeq(sorted, Len(sorted) - Min(n, Len(sorted)) + 1, Len(sorted))

\* "Fetch the IDs of the users we just inserted."
TxFetchIds(p) ==
    /\ tx_pc[p] = "copied"
    /\ tx_user_ids' = [tx_user_ids EXCEPT ![p] = highest_ids(visible_ids(p), tx_num_users[p])]
    /\ tx_pc' = [tx_pc EXCEPT ![p] = "fetched"]
    /\ UNCHANGED <<tx_num_users, tx_inserted, users_rows, users_id_seq, users_skills_rows,
                   genVars, queryVars, skillVars, loadVars, seedVars, purgeVars>>

\* The rows generated for every fetched id are copied (each user gets at least
\* one skill row) and the `with` block ends: the transaction commits.
TxCommit(p) ==
    /\ tx_pc[p] = "fetched"
    /\ users_skills_rows' = users_skills_rows \cup
           {[user_id |-> user_id, by |-> p] : user_id \in Range(tx_user_ids[p])}
    /\ users_rows' = {IF row.by = p THEN [row EXCEPT !.committed = TRUE] ELSE row :
                         row \in users_rows}
    /\ tx_pc' = [tx_pc EXCEPT ![p] = "done"]
    /\ UNCHANGED <<tx_num_users, tx_inserted, tx_user_ids, users_id_seq,
                   genVars, queryVars, skillVars, loadVars, seedVars, purgeVars>>

NextLoadData ==
    \/ \E p \in Txs, n \in 0..MaxPgLoad : TxCopyUsers(p, n)
    \/ \E p \in Txs : TxFetchIds(p)
    \/ \E p \in Txs : TxCommit(p)

SpecLoadData == InitLoadData /\ [][NextLoadData]_vars

\* C23: the ids a load_data call fetched are exactly the ids of the rows that
\* call inserted, and every row it wrote is attached to a user it created:
\* with rows already in users, and with calls that interleave.
C23_FetchedIdsAreOwn ==
    /\ \A p \in Txs :
           tx_pc[p] \in {"fetched", "done"} => Range(tx_user_ids[p]) = tx_inserted[p]
    /\ \A row \in users_skills_rows : row.user_id \in tx_inserted[row.by]

====
